---------------------------- MODULE Spec2Model ----------------------------
(***************************************************************************)
(* The chat client of the encyclopedia knowledge-base agent (ChatApp, the  *)
(* session-tracking definition): configuration load, the submit / await    *)
(* cycle of sendMessage, and the citation highlighter                      *)
(* addMessageWithCitations.                                                *)
(*                                                                         *)
(* Strings are sequences of characters.  The rendered answer is a sequence *)
(* of symbols: a character of the answer text, tagged with its position in *)
(* the original text, or one character of inserted markup.                 *)
(***************************************************************************)
EXTENDS Integers, Sequences, FiniteSets, TLC

VARIABLES
    cfg,            \* position of init(): "fetching", "parsing", "ready", "failed"
    apiUrl,         \* this.apiUrl
    sessionId,      \* this.sessionId
    inputValue,     \* this.messageInput.value
    inputDisabled,  \* this.messageInput.disabled
    buttonDisabled, \* this.sendButton.disabled
    spinner,        \* this.loading.style.display = 'flex'
    listeners,      \* setupEventListeners has run
    transcript,     \* children of this.chatMessages, in order
    calls,          \* activations of sendMessage suspended at an await
    wire,           \* history: requests sent and how each was answered
    configFetches,  \* history: number of fetch('/config.json') issued
    lastEvent,      \* history: whether the handler that ran last called sendMessage
    hl              \* one direct call of addMessageWithCitations and its result

vars == <<cfg, apiUrl, sessionId, inputValue, inputDisabled, buttonDisabled,
          spinner, listeners, transcript, calls, wire, configFetches,
          lastEvent, hl>>

clientVars == <<cfg, apiUrl, sessionId, inputValue, inputDisabled,
                buttonDisabled, spinner, listeners, transcript, calls, wire,
                configFetches, lastEvent>>

---------------------------------------------------------------------------
(* Bounds of the model. *)

\* longest answer text
MaxLen == 2
\* longest citations list
MaxCites == 3
\* symbols of a marker's opening tag (52 characters in the source)
MarkOpenLen == 2
\* symbols of a marker's tooltip and closing tags (69 characters and more)
TooltipLen == 2
\* longest text typed into the input
MaxInput == 1
\* prompts submitted in one run
MaxTurns == 3

---------------------------------------------------------------------------
(* Values. *)

Null == "null"
Undefined == "undefined"

\* a citation: span and source are optional
NoSpanCitation(src) ==
    [hasSpan |-> FALSE, start |-> 0, end |-> 0,
     hasSource |-> src # <<>>, source |-> src]

SpanCitation(s, e, src) ==
    [hasSpan |-> TRUE, start |-> s, end |-> e,
     hasSource |-> src # <<>>, source |-> src]

\* the spans the model draws from, on an answer of at most MaxLen characters:
\* empty, one character, up to MaxLen, past MaxLen, and a negative start
Spans ==
    { sp \in (0 .. MaxLen - 1) \X (0 .. MaxLen + 1) :
        sp[2] \in { sp[1], sp[1] + 1, MaxLen, MaxLen + 1 } }
    \cup { <<-1, 1>> }

\* a span, or <<>> for a citation without one
SpanChoices == Spans \cup { <<>> }

\* source paths; <<>> stands for a citation without a source
SourceAt(i) == IF i % 2 = 1 THEN <<"docs", "geo.txt">> ELSE <<"faq.txt">>

\* the citations list with the given spans; the sources alternate, and the
\* citation at position missing (if any) has none
CitationList(spans, missing) ==
    [i \in 1 .. Len(spans) |->
        LET src == IF i = missing THEN <<>> ELSE SourceAt(i)
        IN  IF spans[i] = <<>> THEN NoSpanCitation(src)
            ELSE SpanCitation(spans[i][1], spans[i][2], src)]

RECURSIVE SeqsUpTo(_, _)
SeqsUpTo(S, n) ==
    IF n = 0 THEN { <<>> }
    ELSE LET shorter == SeqsUpTo(S, n - 1)
         IN  shorter \cup { Append(q, x) : q \in { r \in shorter : Len(r) = n - 1 }, x \in S }

---------------------------------------------------------------------------
(* The rendered answer. *)

TextSym(i) == [k |-> "t", n |-> i, j |-> 0]

\* the answer text of length n: character i is tagged i
Text(n) == [i \in 1 .. n |-> TextSym(i)]

\* <span class="highlighted-text" data-citation-id="${index}">
OpenTag(index) == [j \in 1 .. MarkOpenLen |-> [k |-> "o", n |-> index, j |-> j]]

\* <span class="citation-tooltip">${tooltipContent}</span></span>
TooltipClose(index) == [j \in 1 .. TooltipLen |-> [k |-> "c", n |-> index, j |-> j]]

Drop(s, n) == SubSeq(s, n + 1, Len(s))

\* source.split('/').pop()
SourceFile(src) == src[Len(src)]

---------------------------------------------------------------------------
(* addMessageWithCitations: the sort. *)

\* the comparator handed to sort
CompareCitations(a, b) ==
    IF ~a.hasSpan \/ ~b.hasSpan THEN 0 ELSE b.start - a.start

\* The comparator is a consistent comparator (ECMA-262, Array.prototype.sort)
\* for the list: it answers 0 for every pair with a span-less citation, so
\* with a span-less citation in the list every pair must compare equal.
ConsistentComparator(cs) ==
    (\A i \in 1 .. Len(cs) : cs[i].hasSpan)
    \/ (\A i, j \in 1 .. Len(cs) : CompareCitations(cs[i], cs[j]) = 0)

RECURSIVE Insert(_, _)
Insert(s, x) ==
    IF s = <<>> THEN <<x>>
    ELSE IF CompareCitations(s[Len(s)], x) > 0
         THEN Append(Insert(SubSeq(s, 1, Len(s) - 1), x), s[Len(s)])
         ELSE Append(s, x)

\* the stable sort every engine computes under a consistent comparator
RECURSIVE StableSort(_)
StableSort(cs) ==
    IF cs = <<>> THEN <<>>
    ELSE Insert(StableSort(SubSeq(cs, 1, Len(cs) - 1)), cs[Len(cs)])

Reorderings(cs) ==
    { [i \in 1 .. Len(cs) |-> cs[p[i]]] : p \in Permutations(1 .. Len(cs)) }

\* [...citations].sort(comparator): the stable sort when the comparator is
\* consistent; otherwise the order is implementation-defined, any
\* reordering of the list.
SortOutcomes(cs) ==
    IF ConsistentComparator(cs) THEN { StableSort(cs) } ELSE Reorderings(cs)

---------------------------------------------------------------------------
(* addMessageWithCitations: the splices and the footer. *)

\* a guard that also accepts an empty span
SpanAcceptedOrEmpty(citation, processedContent) ==
    /\ citation.hasSpan
    /\ citation.start >= 0
    /\ citation.end >= citation.start
    /\ citation.end <= Len(processedContent)

\* the test that guards a splice, against the content as processed so far
SpanAccepted(citation, processedContent) ==
    /\ citation.hasSpan
    /\ citation.start >= 0
    /\ citation.end > citation.start
    /\ citation.end <= Len(processedContent)

\* one iteration of sortedCitations.forEach, index counted from 0
SpliceOne(processedContent, citation, index) ==
    IF SpanAccepted(citation, processedContent)
    THEN LET before == SubSeq(processedContent, 1, citation.start)
             highlighted == SubSeq(processedContent, citation.start + 1, citation.end)
             after == Drop(processedContent, citation.end)
         IN  IF ~citation.hasSource
             THEN [threw |-> TRUE, content |-> processedContent]
             ELSE [threw |-> FALSE,
                   content |-> before \o OpenTag(index) \o highlighted
                               \o TooltipClose(index) \o after]
    ELSE [threw |-> FALSE, content |-> processedContent]

\* sortedCitations.forEach from position index + 1 on
RECURSIVE SpliceFrom(_, _, _)
SpliceFrom(processedContent, sortedCitations, index) ==
    IF index >= Len(sortedCitations)
    THEN [threw |-> FALSE, content |-> processedContent]
    ELSE LET r == SpliceOne(processedContent, sortedCitations[index + 1], index)
         IN  IF r.threw THEN r
             ELSE SpliceFrom(r.content, sortedCitations, index + 1)

\* citations.forEach building the Sources block
FooterThrows(citations) == \E i \in 1 .. Len(citations) : ~citations[i].hasSource

\* a footer that lists only the citations that carry a span
FooterOfSpans(citations) ==
    LET spanned == SelectSeq(citations, LAMBDA c : c.hasSpan)
    IN  [i \in 1 .. Len(spanned) |->
            [num |-> i, file |-> SourceFile(spanned[i].source)]]

Footer(citations) ==
    [i \in 1 .. Len(citations) |->
        [num |-> i, file |-> SourceFile(citations[i].source)]]

NoOutput == [threw |-> TRUE, body |-> <<>>, hasFooter |-> FALSE, footer |-> <<>>]

\* addMessageWithCitations(content, citations) with the sort's outcome given:
\* what is appended to the transcript, or threw
Rendered(content, given, citations, sortedCitations) ==
    IF given /\ Len(citations) > 0
    THEN LET r == SpliceFrom(content, sortedCitations, 0)
         IN  IF r.threw \/ FooterThrows(citations) THEN NoOutput
             ELSE [threw |-> FALSE, body |-> r.content,
                   hasFooter |-> TRUE, footer |-> Footer(citations)]
    ELSE [threw |-> FALSE, body |-> content, hasFooter |-> FALSE, footer |-> <<>>]

---------------------------------------------------------------------------
(* Reading a rendered answer back. *)

\* a complete opening tag or tooltip block starts the sequence
BlockAt(s) ==
    /\ s # <<>>
    /\ s[1].j = 1
    /\ \/ s[1].k = "o" /\ Len(s) >= MarkOpenLen
                       /\ SubSeq(s, 1, MarkOpenLen) = OpenTag(s[1].n)
       \/ s[1].k = "c" /\ Len(s) >= TooltipLen
                       /\ SubSeq(s, 1, TooltipLen) = TooltipClose(s[1].n)

BlockLen(s) == IF s[1].k = "o" THEN MarkOpenLen ELSE TooltipLen

\* the body with every complete piece of inserted markup removed
RECURSIVE Strip(_)
Strip(s) ==
    IF s = <<>> THEN <<>>
    ELSE IF BlockAt(s) THEN Strip(Drop(s, BlockLen(s)))
         ELSE <<s[1]>> \o Strip(Drop(s, 1))

\* the positions of the sorted list that received a marker
MarkedIndexes(body) ==
    { body[p].n : p \in { q \in 1 .. Len(body) : body[q].k = "o" /\ body[q].j = 1 } }

\* the marker of sorted position index wraps exactly text[start, end)
WrapsSpan(body, index, start, end) ==
    LET marker == OpenTag(index) \o SubSeq(Text(end), start + 1, end)
                  \o TooltipClose(index)
    IN  \E p \in 1 .. Len(body) - Len(marker) + 1 :
            SubSeq(body, p, p + Len(marker) - 1) = marker

---------------------------------------------------------------------------
(* The chat client: values. *)

InputChars == { " ", "a" }

\* what the user can have typed into the input
InputValues == SeqsUpTo(InputChars, MaxInput)

\* String.prototype.trim
RECURSIVE TrimStart(_)
TrimStart(s) == IF s # <<>> /\ s[1] = " " THEN TrimStart(Drop(s, 1)) ELSE s

RECURSIVE TrimEnd(_)
TrimEnd(s) ==
    IF s # <<>> /\ s[Len(s)] = " " THEN TrimEnd(SubSeq(s, 1, Len(s) - 1)) ELSE s

Trim(s) == TrimEnd(TrimStart(s))

ApologyText == << "Sorry, I encountered an error. Please try again." >>

ConfigErrorText == << "Error loading configuration. Please refresh the page." >>

\* a child of chatMessages: textContent (addMessage) or a rendered answer
TextMessage(content, type) ==
    [type |-> type, content |-> content, html |-> FALSE, rendered |-> NoOutput]

AnswerMessage(out) ==
    [type |-> "bot", content |-> <<>>, html |-> TRUE, rendered |-> out]

\* what response.json() of /config.json settles to: rejected (no JSON), null,
\* or an object whose apiUrl is the string given
ConfigResults == { "reject", "null", "https://api.example/" }

\* the parsed bodies of a 2xx answer of POST /kb the model draws from: without
\* citations and with any session id (or none), with a citation that renders,
\* and with a citation without a source, on which rendering throws
ResponseBodies ==
    { [sessionId |-> sid, len |-> 1, given |-> FALSE, citations |-> <<>>] :
        sid \in { Undefined, "s1", "s2" } }
    \cup { [sessionId |-> "s1", len |-> 1, given |-> TRUE,
            citations |-> << SpanCitation(0, 1, <<"docs", "geo.txt">>) >>],
           [sessionId |-> "s2", len |-> 1, given |-> TRUE,
            citations |-> << NoSpanCitation(<<>>) >>] }

Requests == SelectSeq(wire, LAMBDA e : e.t = "req")

Request(call, url, body) ==
    [t |-> "req", call |-> call, url |-> url, prompt |-> body.prompt,
     sid |-> body.sessionId, outcome |-> "sent"]

Response(call, outcome, sid) ==
    [t |-> "resp", call |-> call, url |-> "", prompt |-> <<>>, sid |-> sid,
     outcome |-> outcome]

---------------------------------------------------------------------------
(* The chat client: construction and init(). *)

\* index.html ships the input and the send button disabled
ControlsInitiallyDisabled == TRUE

NotCalled ==
    [called |-> FALSE, len |-> 0, given |-> FALSE, citations |-> <<>>,
     sortedCitations |-> <<>>, out |-> NoOutput]

\* the state when the constructor returns: init() is suspended at its fetch
Init ==
    /\ cfg = "fetching"
    /\ apiUrl = Null
    /\ sessionId = Null
    /\ inputValue = <<>>
    /\ inputDisabled = ControlsInitiallyDisabled
    /\ buttonDisabled = ControlsInitiallyDisabled
    /\ spinner = FALSE
    /\ listeners = FALSE
    /\ transcript = <<>>
    /\ calls = {}
    /\ wire = <<>>
    /\ configFetches = 1
    /\ lastEvent = "other"
    /\ hl = NotCalled

\* addMessage(content, type)
AddMessage(content, type) ==
    transcript' = Append(transcript, TextMessage(content, type))

\* setLoading that only toggles the spinner
SetLoadingSpinnerOnly(isLoading) ==
    /\ spinner' = isLoading
    /\ UNCHANGED <<inputDisabled, buttonDisabled>>

\* setLoading(isLoading)
SetLoading(isLoading) ==
    /\ spinner' = isLoading
    /\ inputDisabled' = isLoading
    /\ buttonDisabled' = isLoading

\* a catch block of init() that also enables the controls and the listeners
InitCatchEnables ==
    /\ cfg' = "failed"
    /\ AddMessage(ConfigErrorText, "bot")
    /\ inputDisabled' = FALSE
    /\ buttonDisabled' = FALSE
    /\ listeners' = TRUE
    /\ UNCHANGED apiUrl

\* the catch block of init()
InitCatch ==
    /\ cfg' = "failed"
    /\ AddMessage(ConfigErrorText, "bot")
    /\ UNCHANGED <<apiUrl, inputDisabled, buttonDisabled, listeners>>

\* a try block that enables the controls without storing the endpoint
InitLoadedWithoutUrl(configApiUrl) ==
    /\ cfg' = "ready"
    /\ inputDisabled' = FALSE
    /\ buttonDisabled' = FALSE
    /\ listeners' = TRUE
    /\ UNCHANGED <<apiUrl, transcript>>

\* the try block of init() after config has been parsed
InitLoaded(configApiUrl) ==
    /\ cfg' = "ready"
    /\ apiUrl' = configApiUrl \o "kb"
    /\ inputDisabled' = FALSE
    /\ buttonDisabled' = FALSE
    /\ listeners' = TRUE
    /\ UNCHANGED transcript

\* fetch('/config.json') settles
ConfigFetchSettles ==
    /\ cfg = "fetching"
    /\ \E ok \in BOOLEAN :
          IF ok
          THEN /\ cfg' = "parsing"
               /\ UNCHANGED <<apiUrl, inputDisabled, buttonDisabled, listeners,
                              transcript>>
          ELSE InitCatch
    /\ lastEvent' = "other"
    /\ UNCHANGED <<sessionId, inputValue, spinner, calls, wire, configFetches, hl>>

\* response.json() of the configuration settles
ConfigJsonSettles ==
    /\ cfg = "parsing"
    /\ \E r \in ConfigResults :
          IF r \in { "reject", "null" } THEN InitCatch ELSE InitLoaded(r)
    /\ lastEvent' = "other"
    /\ UNCHANGED <<sessionId, inputValue, spinner, calls, wire, configFetches, hl>>

---------------------------------------------------------------------------
(* The chat client: sendMessage. *)

\* sendMessage without its early return
NeverEmptyPrompt(message) == FALSE

\* if (!message) return
IsEmptyPrompt(message) == message = <<>>

\* the body of the POST without the session id
RequestBodyWithoutSession(message, sid) ==
    [prompt |-> message, sessionId |-> Undefined]

\* the body of the POST
RequestBody(message, sid) == [prompt |-> message, sessionId |-> sid]

\* sendMessage() up to its first await
SendMessage ==
    LET message == Trim(inputValue)
    IN  IF IsEmptyPrompt(message)
        THEN UNCHANGED <<transcript, inputValue, spinner, inputDisabled,
                         buttonDisabled, wire, calls, sessionId>>
        ELSE /\ Len(Requests) < MaxTurns
             /\ AddMessage(message, "user")
             /\ inputValue' = <<>>
             /\ SetLoading(TRUE)
             /\ wire' = Append(wire, Request(Len(Requests) + 1, apiUrl,
                                             RequestBody(message, sessionId)))
             /\ calls' = calls \cup { [id |-> Len(Requests) + 1, pc |-> "fetch"] }
             /\ UNCHANGED sessionId

\* the user edits the input, which a disabled input does not allow
TypeText ==
    /\ ~inputDisabled
    /\ \E v \in InputValues : inputValue' = v
    /\ lastEvent' = "other"
    /\ UNCHANGED <<cfg, apiUrl, sessionId, inputDisabled, buttonDisabled, spinner,
                   listeners, transcript, calls, wire, configFetches, hl>>

\* the click listener; a disabled button dispatches no click
Click ==
    /\ listeners
    /\ ~buttonDisabled
    /\ SendMessage
    /\ lastEvent' = "sendMessage"
    /\ UNCHANGED <<cfg, apiUrl, listeners, configFetches, hl>>

\* the keypress listener; a disabled input receives no key
KeyPress ==
    /\ listeners
    /\ ~inputDisabled
    /\ \E key \in { "Enter", "a" }, shiftKey \in BOOLEAN :
          IF key = "Enter" /\ ~shiftKey
          THEN SendMessage /\ lastEvent' = "sendMessage"
          ELSE /\ lastEvent' = "other"
               /\ UNCHANGED <<transcript, inputValue, spinner, inputDisabled,
                              buttonDisabled, wire, calls, sessionId>>
    /\ UNCHANGED <<cfg, apiUrl, listeners, configFetches, hl>>

\* setLoading(false) at the end of the try block instead of in finally
FinallySkippedOnError(outcome) ==
    IF outcome = "ok" THEN SetLoading(FALSE)
    ELSE UNCHANGED <<spinner, inputDisabled, buttonDisabled>>

\* the finally block
Finally(outcome) == SetLoading(FALSE)

\* an ending whose failed rendering leaves its answer in the transcript before
\* the catch block's apology
EndsWithAnswerAndApology(c, outcome, sid, out) ==
    /\ transcript' = IF outcome = "ok" THEN Append(transcript, AnswerMessage(out))
                     ELSE IF outcome = "threw"
                     THEN transcript \o << AnswerMessage(out),
                                           TextMessage(ApologyText, "bot") >>
                     ELSE Append(transcript, TextMessage(ApologyText, "bot"))
    /\ Finally(outcome)
    /\ calls' = calls \ { c }
    /\ wire' = Append(wire, Response(c.id, outcome, sid))

\* how a suspended sendMessage ends: the answer appended by the try block, or
\* the catch block's apology; then the finally block
Ends(c, outcome, sid, out) ==
    /\ transcript' = Append(transcript,
                            IF outcome = "ok" THEN AnswerMessage(out)
                            ELSE TextMessage(ApologyText, "bot"))
    /\ Finally(outcome)
    /\ calls' = calls \ { c }
    /\ wire' = Append(wire, Response(c.id, outcome, sid))

\* await fetch(...) settles: rejected, answered non-2xx, or answered 2xx
FetchSettles ==
    /\ \E c \in calls :
          /\ c.pc = "fetch"
          /\ \E result \in { "transport", "status", "ok" } :
                IF result = "ok"
                THEN /\ calls' = (calls \ { c }) \cup { [c EXCEPT !.pc = "json"] }
                     /\ UNCHANGED <<transcript, spinner, inputDisabled,
                                    buttonDisabled, wire>>
                ELSE Ends(c, result, "none", NoOutput)
    /\ lastEvent' = "other"
    /\ UNCHANGED <<cfg, apiUrl, sessionId, inputValue, listeners, configFetches, hl>>

\* a session id stored only after the answer has been rendered
StoreSessionAfterRender(data, out) ==
    sessionId' = IF out.threw THEN sessionId ELSE data.sessionId

\* this.sessionId = data.sessionId, before the answer is rendered
StoreSession(data, out) == sessionId' = data.sessionId

\* await response.json() settles: no JSON, null, or a body
JsonSettles ==
    /\ \E c \in calls :
          /\ c.pc = "json"
          /\ \/ /\ \E outcome \in { "badjson", "nullbody" } :
                      Ends(c, outcome, "none", NoOutput)
                /\ UNCHANGED sessionId
             \/ \E data \in ResponseBodies :
                  \E sortedCitations \in SortOutcomes(data.citations) :
                     LET out == Rendered(Text(data.len), data.given,
                                         data.citations, sortedCitations)
                     IN  /\ StoreSession(data, out)
                         /\ Ends(c, IF out.threw THEN "threw" ELSE "ok",
                                 data.sessionId, out)
    /\ lastEvent' = "other"
    /\ UNCHANGED <<cfg, apiUrl, inputValue, listeners, configFetches, hl>>

---------------------------------------------------------------------------
(* A direct call of the highlighter. *)

CitationLists ==
    { CitationList(spans, missing) :
        spans \in SeqsUpTo(SpanChoices, MaxCites), missing \in 0 .. MaxCites }

\* addMessageWithCitations(content, citations) on an answer of len characters
AddMessageWithCitations ==
    /\ ~hl.called
    /\ \E len \in 0 .. MaxLen, given \in BOOLEAN :
          \E citations \in IF given THEN CitationLists ELSE { <<>> } :
             \E sortedCitations \in SortOutcomes(citations) :
                hl' = [called |-> TRUE, len |-> len, given |-> given,
                       citations |-> citations,
                       sortedCitations |-> sortedCitations,
                       out |-> Rendered(Text(len), given, citations,
                                        sortedCitations)]
    /\ UNCHANGED clientVars

---------------------------------------------------------------------------
(* Specifications. *)

Next ==
    \/ ConfigFetchSettles
    \/ ConfigJsonSettles
    \/ TypeText
    \/ Click
    \/ KeyPress
    \/ FetchSettles
    \/ JsonSettles

\* the chat client
Spec == Init /\ [][Next]_vars

\* a settled promise's continuation runs: the event loop starves no task, and
\* the network stack settles every fetch
FairSpec == Spec /\ WF_vars(FetchSettles) /\ WF_vars(JsonSettles)

HighlightNext == AddMessageWithCitations

\* the highlighter on every answer and citations list within the bounds
HighlightSpec == Init /\ [][HighlightNext]_vars

---------------------------------------------------------------------------
(* The chat client: properties. *)

Awaiting == calls # {}

Idle == calls = {} /\ ~inputDisabled /\ ~buttonDisabled /\ ~spinner

\* the requests that have been sent and not yet answered
Outstanding ==
    { wire[i].call : i \in { k \in 1 .. Len(wire) : wire[k].t = "req" } }
    \ { wire[i].call : i \in { k \in 1 .. Len(wire) : wire[k].t = "resp" } }

Last(s) == s[Len(s)]

Max(S) == CHOOSE x \in S : \A y \in S : y <= x

\* C1: at most one chat request is outstanding in every reachable state, and
\* while one is, the input and the send button are disabled.
C1_SingleRequestInFlight ==
    /\ Cardinality(Outstanding) <= 1
    /\ Cardinality(calls) <= 1
    /\ Outstanding # {} => inputDisabled /\ buttonDisabled

\* a second request is in flight after the first one was answered
C1_Witness ==
    /\ Len(Requests) = 2
    /\ Cardinality(Outstanding) = 1
    /\ \E c \in calls : c.pc = "json"

\* a suspended sendMessage ends in this step
CallEnds == \E c \in calls : \A d \in calls' : d.id # c.id

\* C2: a step that ends a request (2xx, non-2xx, transport failure, a body
\* that does not parse or does not render) leaves the client Idle with the
\* spinner hidden, and appends the answer on success and the one apology
\* otherwise; and every Awaiting state is followed by an Idle one.
C2_AwaitingReturnsToIdle ==
    /\ [][CallEnds =>
            /\ Idle'
            /\ Len(transcript') = Len(transcript) + 1
            /\ Last(wire').t = "resp"
            /\ IF Last(wire').outcome = "ok"
               THEN Last(transcript').html
               ELSE Last(transcript') = TextMessage(ApologyText, "bot")]_vars
    /\ (Awaiting ~> Idle)

\* the client is Idle again after each kind of failure and after a success
C2_Witness ==
    /\ Idle
    /\ Len(wire) = 6
    /\ wire[2].outcome = "status"
    /\ wire[4].outcome = "threw"
    /\ wire[6].outcome = "ok"

\* C3: once the configuration load has failed the client is disabled for
\* good: controls disabled, no listener, no chat request, one configuration
\* fetch, and the one static error message as the whole transcript.
C3_ConfigFailureIsPermanent ==
    /\ [](cfg = "failed" =>
            /\ inputDisabled /\ buttonDisabled
            /\ ~listeners
            /\ wire = <<>> /\ calls = {}
            /\ configFetches = 1
            /\ transcript = << TextMessage(ConfigErrorText, "bot") >>)
    /\ [][cfg = "failed" => cfg' = "failed"]_vars

\* the configuration load has failed, at the fetch or at the parse
C3_Witness == cfg = "failed" /\ Len(transcript) = 1

\* the answers before position i of the wire whose 2xx body was parsed
ParsedAnswersBefore(i) ==
    { j \in 1 .. i - 1 : wire[j].t = "resp" /\ wire[j].outcome \in { "ok", "threw" } }

C5_EmptyPromptRejected ==
    [][(lastEvent' = "sendMessage" /\ Trim(inputValue) = <<>>) =>
         UNCHANGED <<wire, calls, transcript, inputValue, inputDisabled,
                     buttonDisabled, spinner, sessionId>>]_vars

\* sendMessage has just returned early on a whitespace-only input (an
\* accepted prompt would have cleared the input), with a session stored
C5_Witness ==
    /\ lastEvent = "sendMessage"
    /\ inputValue # <<>> /\ Trim(inputValue) = <<>>
    /\ Idle
    /\ sessionId = "s1"

---------------------------------------------------------------------------
(* The highlighter: properties. *)

\* 0 <= start < end <= length of the answer text
ValidSpan(c, len) == c.hasSpan /\ 0 <= c.start /\ c.start < c.end /\ c.end <= len

EmptySpan(c) == c.hasSpan /\ c.start = c.end

\* every span of the list is valid and no two spans overlap
ValidDisjointSpans(cs, len) ==
    /\ \A i \in 1 .. Len(cs) : cs[i].hasSpan => ValidSpan(cs[i], len)
    /\ \A i, j \in 1 .. Len(cs) :
          (i < j /\ cs[i].hasSpan /\ cs[j].hasSpan) =>
              (cs[i].end <= cs[j].start \/ cs[j].end <= cs[i].start)

\* the call returned a rendered answer
Returned == hl.called /\ ~hl.out.threw

\* C6: for valid, pairwise non-overlapping spans the rendered body with the
\* inserted markup removed is the original text.
C6_RoundTrip ==
    (Returned /\ ValidDisjointSpans(hl.citations, hl.len)) =>
        Strip(hl.out.body) = Text(hl.len)

\* C7: for valid, pairwise non-overlapping spans each citation with a span
\* has a marker that wraps exactly text[start, end).
C7_MarkerWrapsItsSpan ==
    (Returned /\ ValidDisjointSpans(hl.citations, hl.len)) =>
        \A i \in 1 .. Len(hl.sortedCitations) :
            hl.sortedCitations[i].hasSpan =>
                WrapsSpan(hl.out.body, i - 1, hl.sortedCitations[i].start,
                          hl.sortedCitations[i].end)

\* C8: a citation receives an inline marker only if its span is valid
\* against the original answer text.
C8_OnlyValidSpansMarked ==
    Returned =>
        \A index \in MarkedIndexes(hl.out.body) :
            ValidSpan(hl.sortedCitations[index + 1], hl.len)

\* C9: in a rendered answer a citation with an empty span (start = end) has
\* no marker, and the footer lists it, at its position, when it has a source.
C9_EmptySpanFooterOnly ==
    Returned =>
        /\ \A i \in 1 .. Len(hl.sortedCitations) :
              EmptySpan(hl.sortedCitations[i]) =>
                  (i - 1) \notin MarkedIndexes(hl.out.body)
        /\ \A i \in 1 .. Len(hl.citations) :
              (EmptySpan(hl.citations[i]) /\ hl.citations[i].hasSource) =>
                  /\ hl.out.hasFooter
                  /\ i <= Len(hl.out.footer)
                  /\ hl.out.footer[i] =
                        [num |-> i, file |-> Last(hl.citations[i].source)]

\* an empty span inside the text, between two marked citations
C9_Witness ==
    /\ Returned
    /\ Len(hl.citations) = 3
    /\ EmptySpan(hl.citations[2]) /\ hl.citations[2].start = 1
    /\ hl.len = MaxLen
    /\ Cardinality(MarkedIndexes(hl.out.body)) = 2

\* C10: the footer of a rendered answer has one entry per citation, in the
\* order of the citations list, numbered from 1; without citations there is
\* no footer and the body is the text.
C10_FooterListsEveryCitation ==
    Returned =>
        IF hl.given /\ Len(hl.citations) > 0
        THEN /\ hl.out.hasFooter
             /\ Len(hl.out.footer) = Len(hl.citations)
             /\ \A i \in 1 .. Len(hl.citations) :
                   hl.out.footer[i] =
                      [num |-> i, file |-> Last(hl.citations[i].source)]
        ELSE /\ ~hl.out.hasFooter
             /\ hl.out.footer = <<>>
             /\ hl.out.body = Text(hl.len)

\* a footer of three entries where the sort moved a citation and one
\* citation has no span
C10_Witness ==
    /\ Returned
    /\ Len(hl.out.footer) = 3
    /\ hl.sortedCitations # hl.citations
    /\ \E i \in 1 .. 3 : ~hl.citations[i].hasSpan

\* C11: for every citations list, mixed lists included, the citations with a
\* valid span are spliced in non-increasing order of span start: none is
\* spliced after a citation with a smaller start.
C11_SplicedInDescendingStart ==
    hl.called =>
        \A i, j \in 1 .. Len(hl.sortedCitations) :
            (/\ i < j
             /\ ValidSpan(hl.sortedCitations[i], hl.len)
             /\ ValidSpan(hl.sortedCitations[j], hl.len)) =>
                hl.sortedCitations[i].start >= hl.sortedCitations[j].start

\* the endpoints init() can store: the apiUrl of a config.json, plus 'kb'
ConfiguredUrls ==
    { r \o "kb" : r \in ConfigResults \ { "reject", "null" } }

\* C12: no chat request is sent before the configuration fetch has succeeded:
\* every POST went to the apiUrl stored from config.json (apiUrl + 'kb'), and
\* the controls and listeners are enabled only once that fetch has succeeded.
C12_NoRequestBeforeConfig ==
    /\ \A i \in 1 .. Len(wire) :
          wire[i].t = "req" => (wire[i].url = apiUrl /\ apiUrl \in ConfiguredUrls)
    /\ (wire # <<>> \/ calls # {}) => cfg = "ready"
    /\ (~inputDisabled \/ ~buttonDisabled \/ listeners) => cfg = "ready"
    /\ cfg = "ready" <=> apiUrl \in ConfiguredUrls
    /\ cfg # "ready" => apiUrl = Null

\* a prompt was posted after the configuration had been loaded
C12_Witness ==
    /\ cfg = "ready"
    /\ Len(wire) = 1
    /\ wire[1].t = "req" /\ wire[1].url = "https://api.example/kb"
    /\ inputDisabled /\ buttonDisabled

\* C13: the stored session id changes only in a step that ends a request
\* whose 2xx body was parsed, and then to that body's sessionId, also when
\* rendering the answer fails; a request that fails by transport, by status
\* or by a body that does not parse leaves it as it was.
C13_SessionIdOnlyFromParsedBody ==
    /\ [][sessionId' # sessionId =>
            /\ CallEnds
            /\ Last(wire').t = "resp"
            /\ Last(wire').outcome \in { "ok", "threw" }]_vars
    /\ [][CallEnds =>
            sessionId' = IF Last(wire').outcome \in { "ok", "threw" }
                         THEN Last(wire').sid
                         ELSE sessionId]_vars

\* an answer that failed to render replaced the session id, and the failed
\* requests after it left the new one in place
C13_Witness ==
    /\ Len(wire) = 6
    /\ wire[2].outcome = "ok" /\ wire[2].sid = "s1"
    /\ wire[4].outcome = "threw" /\ wire[4].sid = "s2"
    /\ wire[6].outcome \in { "transport", "status" }
    /\ sessionId = "s2"

\* a sendMessage passed its empty-prompt test in this step
PromptAccepted == Len(wire') = Len(wire) + 1 /\ Last(wire').t = "req"

\* C14: the transcript only grows, by one message at a time: the user's
\* message when a prompt is accepted and one bot message when its request
\* ends (the rendered answer on success, the apology on any failure); so once
\* the configuration is loaded it alternates user, bot, and while a request
\* is awaited its last message is the user's.
C14_TranscriptAlternates ==
    /\ [][transcript' # transcript =>
            /\ Len(transcript') = Len(transcript) + 1
            /\ SubSeq(transcript', 1, Len(transcript)) = transcript
            /\ PromptAccepted \/ CallEnds \/ cfg' = "failed"]_vars
    /\ [][PromptAccepted =>
            transcript' = Append(transcript,
                                 TextMessage(Last(wire').prompt, "user"))]_vars
    /\ [][CallEnds =>
            /\ Len(transcript') = Len(transcript) + 1
            /\ Last(transcript').type = "bot"
            /\ Last(transcript').html = (Last(wire').outcome = "ok")
            /\ Last(wire').outcome # "ok" =>
                  Last(transcript') = TextMessage(ApologyText, "bot")]_vars
    /\ [](cfg = "ready" =>
            /\ \A i \in 1 .. Len(transcript) :
                  transcript[i].type = IF i % 2 = 1 THEN "user" ELSE "bot"
            /\ Len(transcript) = Len(wire)
            /\ Awaiting <=> Len(transcript) % 2 = 1
            /\ Awaiting => Last(transcript).type = "user")

\* a third prompt is awaited after one rendered answer and one apology
C14_Witness ==
    /\ Awaiting
    /\ Len(transcript) = 5
    /\ transcript[2].html
    /\ transcript[4] = TextMessage(ApologyText, "bot")
    /\ wire[4].outcome = "threw"

===========================================================================
